---- MODULE Spec2Model ----
(* A model of the staged system scheduler of bones_ecs                      *)
(* (crates/bones_ecs/src/stage.rs): SystemStages, SimpleSystemStage,        *)
(* StageLabel and CoreStage.                                                *)
EXTENDS Integers, Sequences, FiniteSets, TLC

(***************************************************************************)
(* Bounds of the model.                                                    *)
(***************************************************************************)
\* most systems registered into one collection
MaxSystems == 2
\* most run calls (ticks) made on one collection
MaxRuns == 2
\* most initialize_systems calls made on one collection
MaxInits == 2
\* most run calls (ticks) made on the collection of the example
ScenarioTicks == 3

(***************************************************************************)
(* Ulid: a 128-bit value.  The scheduler compares ids and formats them,    *)
(* and does no arithmetic on them: an id is written as its decimal         *)
(* literal, which is beyond the integers that TLC has.                     *)
(***************************************************************************)
UlidZero == "0"

\* A piece of formatted text: literal text or the `{}` of a String.
Text(s) == [text |-> s]

\* `{}` of a Ulid in a format string: the text the Display of the id yields.
\* The text is determined by the id and is not the id itself.
UlidDisplay(id) == [ulid |-> id]

(***************************************************************************)
(* StageLabel: name() and id().  CoreStage is the built-in label.          *)
(***************************************************************************)
CoreStage == {"First", "PreUpdate", "Update", "PostUpdate", "Last"}

CoreStageName(l) ==
    CASE l = "First" -> "First"
      [] l = "PreUpdate" -> "PreUpdate"
      [] l = "Update" -> "Update"
      [] l = "PostUpdate" -> "PostUpdate"
      [] l = "Last" -> "Last"

\* CoreStageId with the constant of Update pasted for PostUpdate
CoreStageIdClash(l) ==
    CASE l = "First" -> "2021715391084198804812356024998495966"
      [] l = "PreUpdate" -> "2021715401330719559452824437611089988"
      [] l = "Update" -> "2021715410160177201728645950400543948"
      [] l = "PostUpdate" -> "2021715410160177201728645950400543948"
      [] l = "Last" -> "2021715433398666914977687392909851554"

CoreStageId(l) ==
    CASE l = "First" -> "2021715391084198804812356024998495966"
      [] l = "PreUpdate" -> "2021715401330719559452824437611089988"
      [] l = "Update" -> "2021715410160177201728645950400543948"
      [] l = "PostUpdate" -> "2021715423103233646561968734173322317"
      [] l = "Last" -> "2021715433398666914977687392909851554"

\* A label is the pair its two accessors return.
CoreLabel(l) == [name |-> CoreStageName(l), id |-> CoreStageId(l)]

CoreLabels == {CoreLabel(l) : l \in CoreStage}

\* Labels of other implementors of StageLabel.  "A" and "A2" have the same id.
LabelA == [name |-> "A", id |-> "1"]

LabelB == [name |-> "B", id |-> "2"]

LabelA2 == [name |-> "A2", id |-> "1"]

CustomLabels == {LabelA, LabelB, LabelA2}

Labels == CoreLabels \cup CustomLabels

(***************************************************************************)
(* System: opaque to the scheduler.  A system is known by its function,    *)
(* and keeps count of the calls of its initialize hook.                    *)
(***************************************************************************)
SystemFns == {"sysX", "sysY"}

NewSystem(f) == [fn |-> f, inits |-> 0]

\* SystemResult: Ok(()) or Err(e)
Ok == [ok |-> TRUE]

Err(e) == [ok |-> FALSE, err |-> e]

\* The error that the run hook of the system at position p makes when it
\* fails: the scheduler does not look into it, and the systems make
\* different errors.
ErrorOf(p) == [from |-> p]

(***************************************************************************)
(* State.                                                                  *)
(***************************************************************************)
VARIABLES
    stages,   \* SystemStages.stages: the stages, each [id, name, systems]
    calls,    \* the hook calls made by the last call of the scheduler, in order
    last,     \* the last call of the scheduler and its arguments
    ret,      \* what the last call returned
    panic,    \* the panic message once the program has panicked, else <<>>
    nRuns,    \* number of run calls so far
    nInits,   \* number of initialize_systems calls so far
    ctor,     \* the constructor the collection was built by
    registered, \* the registrations so far, in order: [stage, fn, after],
                \* after: the number of initialize_systems calls before it
    streak,   \* number of run calls in a row, up to now, that returned Ok
    ticks     \* whether each run call so far returned Ok, in order

vars == <<stages, calls, last, ret, panic, nRuns, nInits, ctor, registered,
          streak, ticks>>

NoPanic == <<>>
Unit == [unit |-> TRUE]

(***************************************************************************)
(* SimpleSystemStage                                                       *)
(***************************************************************************)
SimpleSystemStageNew(label) ==
    [id |-> label.id, name |-> label.name, systems |-> <<>>]

StageId(st) == st.id

StageName(st) == st.name

\* StageAddSystem with the system put at the front of the list
StageAddSystemFront(st, system) ==
    [st EXCEPT !.systems = <<system>> \o @]

\* StageAddSystem with the list assigned instead of pushed to
StageAddSystemReplaces(st, system) ==
    [st EXCEPT !.systems = <<system>>]

\* StageAddSystem that does not add a system the stage already has
StageAddSystemDedups(st, system) ==
    IF \E k \in 1..Len(st.systems) : st.systems[k].fn = system.fn
    THEN st
    ELSE [st EXCEPT !.systems = Append(@, system)]

StageAddSystem(st, system) ==
    [st EXCEPT !.systems = Append(@, system)]

\* One call of a hook, as the world sees it.
HookCall(hook, i, j, system, result) ==
    [hook |-> hook, stage |-> i, index |-> j, fn |-> system.fn,
     result |-> result]

\* SimpleSystemStage::initialize on stage number i: every system, in order.
\* Yields the stage after the calls and the calls made.
RECURSIVE StageInitializeFrom(_, _, _, _)
StageInitializeFrom(st, i, j, log) ==
    IF j > Len(st.systems) THEN [stage |-> st, log |-> log]
    ELSE StageInitializeFrom(
            [st EXCEPT !.systems[j].inits = @ + 1], i, j + 1,
            Append(log, HookCall("initialize", i, j, st.systems[j], Unit)))

\* StageInitialize that skips the systems that were initialized before
RECURSIVE StageInitializeOnceFrom(_, _, _, _)
StageInitializeOnceFrom(st, i, j, log) ==
    IF j > Len(st.systems) THEN [stage |-> st, log |-> log]
    ELSE IF st.systems[j].inits > 0
         THEN StageInitializeOnceFrom(st, i, j + 1, log)
         ELSE StageInitializeOnceFrom(
                [st EXCEPT !.systems[j].inits = @ + 1], i, j + 1,
                Append(log, HookCall("initialize", i, j, st.systems[j], Unit)))

StageInitializeOnce(st, i, log) == StageInitializeOnceFrom(st, i, 1, log)

\* StageInitialize with the loop starting one system late
StageInitializeOffByOne(st, i, log) == StageInitializeFrom(st, i, 2, log)

StageInitialize(st, i, log) == StageInitializeFrom(st, i, 1, log)

\* SimpleSystemStage::run on stage number i: every system in order, `?`
\* returns at the first Err.  hooks[<<i, j>>] is what the run hook of the
\* j-th system returns in this call.
RECURSIVE StageRunFrom(_, _, _, _, _)
StageRunFrom(st, i, j, hooks, log) ==
    IF j > Len(st.systems) THEN [stage |-> st, log |-> log, result |-> Ok]
    ELSE LET r == hooks[<<i, j>>]
             log2 == Append(log, HookCall("run", i, j, st.systems[j], r))
         IN IF r.ok THEN StageRunFrom(st, i, j + 1, hooks, log2)
            ELSE [stage |-> st, log |-> log2, result |-> r]

\* StageRun that takes a system that failed out of the list
RECURSIVE StageRunRemovesFailedFrom(_, _, _, _, _)
StageRunRemovesFailedFrom(st, i, j, hooks, log) ==
    IF j > Len(st.systems) THEN [stage |-> st, log |-> log, result |-> Ok]
    ELSE LET r == hooks[<<i, j>>]
             log2 == Append(log, HookCall("run", i, j, st.systems[j], r))
         IN IF r.ok THEN StageRunRemovesFailedFrom(st, i, j + 1, hooks, log2)
            ELSE [stage |-> [st EXCEPT !.systems =
                                SubSeq(@, 1, j - 1) \o SubSeq(@, j + 1, Len(@))],
                  log |-> log2, result |-> r]

StageRunRemovesFailed(st, i, hooks, log) ==
    StageRunRemovesFailedFrom(st, i, 1, hooks, log)

\* StageRun that calls a system that failed a second time
RECURSIVE StageRunRetriesFrom(_, _, _, _, _)
StageRunRetriesFrom(st, i, j, hooks, log) ==
    IF j > Len(st.systems) THEN [stage |-> st, log |-> log, result |-> Ok]
    ELSE LET r == hooks[<<i, j>>]
             log2 == Append(log, HookCall("run", i, j, st.systems[j], r))
         IN IF r.ok THEN StageRunRetriesFrom(st, i, j + 1, hooks, log2)
            ELSE [stage |-> st,
                  log |-> Append(log2, HookCall("run", i, j, st.systems[j], r)),
                  result |-> r]

StageRunRetries(st, i, hooks, log) == StageRunRetriesFrom(st, i, 1, hooks, log)

\* StageRun without the `?`: the result of a run hook is dropped
RECURSIVE StageRunDropsResultFrom(_, _, _, _, _)
StageRunDropsResultFrom(st, i, j, hooks, log) ==
    IF j > Len(st.systems) THEN [stage |-> st, log |-> log, result |-> Ok]
    ELSE StageRunDropsResultFrom(st, i, j + 1, hooks,
            Append(log, HookCall("run", i, j, st.systems[j], hooks[<<i, j>>])))

StageRunDropsResult(st, i, hooks, log) ==
    StageRunDropsResultFrom(st, i, 1, hooks, log)

\* StageRun that returns from inside the loop after the first system
StageRunReturnsEarly(st, i, hooks, log) ==
    IF Len(st.systems) = 0 THEN [stage |-> st, log |-> log, result |-> Ok]
    ELSE [stage |-> st,
          log |-> Append(log, HookCall("run", i, 1, st.systems[1],
                                       hooks[<<i, 1>>])),
          result |-> hooks[<<i, 1>>]]

StageRun(st, i, hooks, log) == StageRunFrom(st, i, 1, hooks, log)

(***************************************************************************)
(* SystemStages                                                            *)
(***************************************************************************)
\* WithCoreStages with the PostUpdate line pasted twice
WithCoreStagesPasted ==
    << SimpleSystemStageNew(CoreLabel("First")),
       SimpleSystemStageNew(CoreLabel("PreUpdate")),
       SimpleSystemStageNew(CoreLabel("PostUpdate")),
       SimpleSystemStageNew(CoreLabel("PostUpdate")),
       SimpleSystemStageNew(CoreLabel("Last")) >>

WithCoreStages ==
    << SimpleSystemStageNew(CoreLabel("First")),
       SimpleSystemStageNew(CoreLabel("PreUpdate")),
       SimpleSystemStageNew(CoreLabel("Update")),
       SimpleSystemStageNew(CoreLabel("PostUpdate")),
       SimpleSystemStageNew(CoreLabel("Last")) >>

\* Collections built by hand from the public field `stages`: without
\* stages, with one stage, with two stages, and with three stages of which
\* the first and the last have the same id.
HandBuilt ==
    {[k \in 1..Len(ls) |-> SimpleSystemStageNew(ls[k])] :
        ls \in {<<>>, <<LabelA>>, <<LabelA, LabelB>>,
                <<LabelA, LabelB, LabelA2>>}}

\* SystemStages::initialize_systems: every stage, in order
RECURSIVE InitializeSystemsFrom(_, _, _)
InitializeSystemsFrom(sts, i, log) ==
    IF i > Len(sts) THEN [stages |-> sts, log |-> log]
    ELSE LET r == StageInitialize(sts[i], i, log)
         IN InitializeSystemsFrom([sts EXCEPT ![i] = r.stage], i + 1, r.log)

\* SystemStages::run
RECURSIVE RunFrom(_, _, _, _)
RunFrom(sts, i, hooks, log) ==
    IF i > Len(sts) THEN [stages |-> sts, log |-> log, result |-> Ok]
    ELSE LET r == StageRun(sts[i], i, hooks, log)
             sts2 == [sts EXCEPT ![i] = r.stage]
         IN IF r.result.ok THEN RunFrom(sts2, i + 1, hooks, r.log)
            ELSE [stages |-> sts2, log |-> r.log, result |-> r.result]

SystemStagesInitialize(sts) == InitializeSystemsFrom(sts, 1, <<>>)

\* SystemStagesRun with the stages taken last to first
RECURSIVE RunDownFrom(_, _, _, _)
RunDownFrom(sts, i, hooks, log) ==
    IF i < 1 THEN [stages |-> sts, log |-> log, result |-> Ok]
    ELSE LET r == StageRun(sts[i], i, hooks, log)
             sts2 == [sts EXCEPT ![i] = r.stage]
         IN IF r.result.ok THEN RunDownFrom(sts2, i - 1, hooks, r.log)
            ELSE [stages |-> sts2, log |-> r.log, result |-> r.result]

SystemStagesRunReversed(sts, hooks) == RunDownFrom(sts, Len(sts), hooks, <<>>)

\* SystemStagesRun that refuses a collection that was not initialized
SystemStagesRunRefuses(sts, hooks) ==
    IF nInits = 0
    THEN [stages |-> sts, log |-> <<>>, result |-> Err([refused |-> TRUE])]
    ELSE RunFrom(sts, 1, hooks, <<>>)

\* SystemStagesRun without the `?`: the result of a stage is dropped
RECURSIVE RunSwallowsFrom(_, _, _, _)
RunSwallowsFrom(sts, i, hooks, log) ==
    IF i > Len(sts) THEN [stages |-> sts, log |-> log, result |-> Ok]
    ELSE RunSwallowsFrom(sts, i + 1, hooks, StageRun(sts[i], i, hooks, log).log)

SystemStagesRunSwallows(sts, hooks) == RunSwallowsFrom(sts, 1, hooks, <<>>)

\* SystemStagesRun that takes up a failed run call at the system that failed
SystemStagesRunResumes(sts, hooks) ==
    IF last.op = "run" /\ ~ret.ok
    THEN LET c == calls[Len(calls)]
             r == StageRunFrom(sts[c.stage], c.stage, c.index, hooks, <<>>)
         IN IF r.result.ok THEN RunFrom(sts, c.stage + 1, hooks, r.log)
            ELSE [stages |-> sts, log |-> r.log, result |-> r.result]
    ELSE RunFrom(sts, 1, hooks, <<>>)

SystemStagesRun(sts, hooks) == RunFrom(sts, 1, hooks, <<>>)

\* The scan of add_system_to_stage: `stage` after the loop over the stages,
\* 0 for None.  A later match overwrites an earlier one.
RECURSIVE FindStageFrom(_, _, _, _)
FindStageFrom(sts, id, i, stage) ==
    IF i > Len(sts) THEN stage
    ELSE FindStageFrom(sts, id, i + 1,
                       IF StageId(sts[i]) = id THEN i ELSE stage)

\* FindStage with a break at the first match
FindStageBreaks(sts, id) ==
    IF \E i \in 1..Len(sts) : StageId(sts[i]) = id
    THEN CHOOSE i \in 1..Len(sts) :
            /\ StageId(sts[i]) = id
            /\ \A j \in 1..(i - 1) : StageId(sts[j]) # id
    ELSE 0

FindStage(sts, id) == FindStageFrom(sts, id, 1, 0)

\* PanicMessage that names the label only
PanicMessageNameOnly(name, id) ==
    <<Text("Stage with label '"), Text(name), Text("' doesn't exist.")>>

\* The pieces of the formatted message, in order.  The grave accents of the
\* format string are written as apostrophes.
PanicMessage(name, id) ==
    <<Text("Stage with label '"), Text(name), Text("' ( "), UlidDisplay(id),
      Text(" ) doesn't exist.")>>

\* Positions of the systems of a collection: <<stage number, index>>
Positions(sts) ==
    UNION {{<<i, j>> : j \in 1..Len(sts[i].systems)} : i \in 1..Len(sts)}

NumSystems(sts) == Cardinality(Positions(sts))

(***************************************************************************)
(* Actions: one per call of the public API.                                *)
(***************************************************************************)
\* Nothing has been called on a collection that was just built.
Fresh ==
    /\ calls = <<>>
    /\ last = [op |-> "new"]
    /\ ret = Unit
    /\ panic = NoPanic
    /\ nRuns = 0
    /\ nInits = 0
    /\ registered = <<>>
    /\ streak = 0
    /\ ticks = <<>>

\* A collection built by hand.
Init ==
    /\ stages \in HandBuilt
    /\ ctor = "stages"
    /\ Fresh

\* A collection built by with_core_stages.
InitCore ==
    /\ stages = WithCoreStages
    /\ ctor = "with_core_stages"
    /\ Fresh

\* AddSystemToStage that makes the stage of a label that no stage has
AddSystemToStageMakesStage(label, f) ==
    /\ panic = NoPanic
    /\ NumSystems(stages) < MaxSystems
    /\ LET stage == FindStage(stages, label.id)
           sts == IF stage = 0
                  THEN Append(stages, SimpleSystemStageNew(label))
                  ELSE stages
           at == IF stage = 0 THEN Len(sts) ELSE stage
       IN /\ stages' = [sts EXCEPT ![at] = StageAddSystem(@, NewSystem(f))]
          /\ registered' =
                Append(registered, [stage |-> at, fn |-> f, after |-> nInits])
    /\ last' = [op |-> "add_system_to_stage", label |-> label, fn |-> f]
    /\ calls' = <<>>
    /\ ret' = Unit
    /\ streak' = 0
    /\ UNCHANGED <<panic, nRuns, nInits, ctor, ticks>>

\* AddSystemToStage that calls the initialize hook of the system it
\* registers when the collection was initialized before
AddSystemToStageInitializes(label, f) ==
    /\ panic = NoPanic
    /\ NumSystems(stages) < MaxSystems
    /\ LET name == label.name
           id == label.id
           stage == FindStage(stages, id)
       IN /\ last' = [op |-> "add_system_to_stage", label |-> label, fn |-> f]
          /\ calls' = <<>>
          /\ IF stage = 0
             THEN /\ panic' = PanicMessage(name, id)
                  /\ UNCHANGED <<stages, ret, registered>>
             ELSE /\ stages' = [stages EXCEPT
                                  ![stage] = StageAddSystem(@,
                                     [fn |-> f,
                                      inits |-> IF nInits > 0 THEN 1 ELSE 0])]
                  /\ registered' =
                        Append(registered,
                               [stage |-> stage, fn |-> f, after |-> nInits])
                  /\ ret' = Unit
                  /\ UNCHANGED panic
    /\ streak' = 0
    /\ UNCHANGED <<nRuns, nInits, ctor, ticks>>

AddSystemToStage(label, f) ==
    /\ panic = NoPanic
    /\ NumSystems(stages) < MaxSystems
    /\ LET name == label.name
           id == label.id
           stage == FindStage(stages, id)
       IN /\ last' = [op |-> "add_system_to_stage", label |-> label, fn |-> f]
          /\ calls' = <<>>
          /\ IF stage = 0
             THEN /\ panic' = PanicMessage(name, id)
                  /\ UNCHANGED <<stages, ret, registered>>
             ELSE /\ stages' = [stages EXCEPT
                                  ![stage] = StageAddSystem(@, NewSystem(f))]
                  /\ registered' =
                        Append(registered,
                               [stage |-> stage, fn |-> f, after |-> nInits])
                  /\ ret' = Unit
                  /\ UNCHANGED panic
    /\ streak' = 0
    /\ UNCHANGED <<nRuns, nInits, ctor, ticks>>

InitializeSystems ==
    /\ panic = NoPanic
    /\ nInits < MaxInits
    /\ LET r == SystemStagesInitialize(stages)
       IN /\ stages' = r.stages
          /\ calls' = r.log
    /\ last' = [op |-> "initialize_systems"]
    /\ ret' = Unit
    /\ nInits' = nInits + 1
    /\ streak' = 0
    /\ UNCHANGED <<panic, nRuns, ctor, registered, ticks>>

\* run, called at most maxRuns times
RunBounded(maxRuns) ==
    /\ panic = NoPanic
    /\ nRuns < maxRuns
    /\ \E failing \in SUBSET Positions(stages) :
         LET hooks == [p \in Positions(stages) |->
                        IF p \in failing THEN Err(ErrorOf(p)) ELSE Ok]
             r == SystemStagesRun(stages, hooks)
         IN /\ stages' = r.stages
            /\ calls' = r.log
            /\ ret' = r.result
            /\ streak' = IF r.result.ok THEN streak + 1 ELSE 0
            /\ ticks' = Append(ticks, r.result.ok)
    /\ last' = [op |-> "run"]
    /\ nRuns' = nRuns + 1
    /\ UNCHANGED <<panic, nInits, ctor, registered>>

Run == RunBounded(MaxRuns)

Next ==
    \/ \E label \in Labels, f \in SystemFns : AddSystemToStage(label, f)
    \/ InitializeSystems
    \/ Run

Spec == Init /\ [][Next]_vars

\* The calls on a collection built by with_core_stages; the systems
\* registered into it are of one function.
NextCore ==
    \/ \E label \in Labels : AddSystemToStage(label, "sysX")
    \/ InitializeSystems
    \/ Run

SpecCore == InitCore /\ [][NextCore]_vars

\* The collection of the example: stage A with sysX and sysY, stage B with
\* sysZ, as three add_system_to_stage calls leave it.
ScenarioStages ==
    << StageAddSystem(
          StageAddSystem(SimpleSystemStageNew(LabelA), NewSystem("sysX")),
          NewSystem("sysY")),
       StageAddSystem(SimpleSystemStageNew(LabelB), NewSystem("sysZ")) >>

InitScenario ==
    /\ stages = ScenarioStages
    /\ ctor = "stages"
    /\ calls = <<>>
    /\ last = [op |-> "add_system_to_stage", label |-> LabelB, fn |-> "sysZ"]
    /\ ret = Unit
    /\ panic = NoPanic
    /\ nRuns = 0
    /\ nInits = 0
    /\ registered = << [stage |-> 1, fn |-> "sysX", after |-> 0],
                       [stage |-> 1, fn |-> "sysY", after |-> 0],
                       [stage |-> 2, fn |-> "sysZ", after |-> 0] >>
    /\ streak = 0
    /\ ticks = <<>>

\* The ticks of the example, with or without initialize_systems calls.
NextScenario ==
    \/ InitializeSystems
    \/ RunBounded(ScenarioTicks)

SpecScenario == InitScenario /\ [][NextScenario]_vars

(***************************************************************************)
(* Vocabulary of the properties.                                           *)
(***************************************************************************)
AfterRun == last.op = "run"

AfterInitialize == last.op = "initialize_systems"

AfterAdd == last.op = "add_system_to_stage"

\* position p comes before position q in stage order, then list order
Before(p, q) == p[1] < q[1] \/ (p[1] = q[1] /\ p[2] < q[2])

Pos(c) == <<c.stage, c.index>>

\* the calls of the last scheduler call that went to the systems of stage i
CallsOfStage(i) == SelectSeq(calls, LAMBDA c : c.stage = i)

\* the functions registered into stage i, in the order of their registration
InsertionOrder(i) ==
    LET rs == SelectSeq(registered, LAMBDA r : r.stage = i)
    IN [k \in 1..Len(rs) |-> rs[k].fn]

\* the first call of the last scheduler call that reported failure, 0 if none
FirstFailure ==
    IF \E m \in 1..Len(calls) : ~calls[m].result.ok
    THEN CHOOSE m \in 1..Len(calls) :
            /\ ~calls[m].result.ok
            /\ \A n \in 1..(m - 1) : calls[n].result.ok
    ELSE 0

(***************************************************************************)
(* C1. Fail-fast within a tick: when the k-th system of a stage is the     *)
(* first system of a run call to report failure, no system after it in     *)
(* that stage and no system of a later stage is run in that call, and run  *)
(* returns exactly the error of that system.                               *)
(***************************************************************************)
C1_FailFast ==
    (AfterRun /\ FirstFailure # 0) =>
        LET c == calls[FirstFailure]
        IN /\ \A m \in 1..Len(calls) :
                /\ ~(calls[m].stage = c.stage /\ calls[m].index > c.index)
                /\ ~(calls[m].stage > c.stage)
           /\ Len(calls) = FirstFailure
           /\ ret = c.result

\* the first of two systems of a stage failed, and a later stage has a system
C1_Witness ==
    /\ AfterRun
    /\ FirstFailure # 0
    /\ LET c == calls[FirstFailure]
       IN \/ Len(stages[c.stage].systems) > c.index
          \/ \E i \in (c.stage + 1)..Len(stages) : Len(stages[i].systems) > 0

(***************************************************************************)
(* C2. Insertion order is execution order within a stage: every run call   *)
(* calls the run hooks of the systems of a stage in the order in which     *)
(* they were added to it, all of them unless a system fails.               *)
(***************************************************************************)
C2_InsertionOrderIsExecutionOrder ==
    AfterRun =>
        \A i \in 1..Len(stages) :
            LET cs == CallsOfStage(i)
                order == InsertionOrder(i)
            IN /\ Len(cs) <= Len(order)
               /\ \A k \in 1..Len(cs) :
                    cs[k].hook = "run" /\ cs[k].fn = order[k]
               /\ ret.ok => Len(cs) = Len(order)

\* a second run call ran two different systems of one stage
C2_Witness ==
    /\ AfterRun
    /\ nRuns >= 2
    /\ \E i \in 1..Len(stages) :
         /\ Len(CallsOfStage(i)) >= 2
         /\ CallsOfStage(i)[1].fn # CallsOfStage(i)[2].fn

(***************************************************************************)
(* C3. Stages run in construction order whatever the order of              *)
(* registration: in a run call every system of the stage at position i     *)
(* runs before any system of a stage at a position j > i.                  *)
(***************************************************************************)
C3_StagesRunInConstructionOrder ==
    AfterRun =>
        \A m, n \in 1..Len(calls) :
            m < n => calls[m].stage <= calls[n].stage

\* a run over two stages of which the later one was registered into first
C3_Witness ==
    /\ AfterRun
    /\ \E m, n \in 1..Len(calls) :
         /\ m < n
         /\ calls[m].stage < calls[n].stage
         /\ \E a, b \in 1..Len(registered) :
              /\ a < b
              /\ registered[a].stage = calls[n].stage
              /\ registered[b].stage = calls[m].stage

(***************************************************************************)
(* C4. A collection built by with_core_stages holds five stages whose ids  *)
(* are, in order, the constants of First, PreUpdate, Update, PostUpdate    *)
(* and Last; the ids are pairwise distinct and not zero, every stage       *)
(* starts without systems, and every construction gives the same ids.      *)
(***************************************************************************)
CoreStageOrder == <<"First", "PreUpdate", "Update", "PostUpdate", "Last">>

C4_CoreStages ==
    (ctor = "with_core_stages" /\ last.op = "new") =>
        /\ Len(stages) = 5
        /\ \A i \in 1..5 :
              /\ StageId(stages[i]) = CoreStageId(CoreStageOrder[i])
              /\ StageId(stages[i]) # UlidZero
              /\ stages[i].systems = <<>>
        /\ \A i, j \in 1..Len(stages) :
              i # j => StageId(stages[i]) # StageId(stages[j])

\* a collection fresh from with_core_stages
C4_Witness ==
    /\ ctor = "with_core_stages"
    /\ last.op = "new"
    /\ Len(stages) > 0

(***************************************************************************)
(* C5. add_system_to_stage with a label whose id is the id of no stage     *)
(* panics with a message that contains the name and the id of the label,   *)
(* and has changed the system list of no stage.                            *)
(***************************************************************************)
Contains(msg, piece) == \E k \in 1..Len(msg) : msg[k] = piece

NoStageHas(sts, id) == \A i \in 1..Len(sts) : StageId(sts[i]) # id

C5_UnknownLabelPanics ==
    [][(last'.op = "add_system_to_stage" /\ NoStageHas(stages, last'.label.id))
        => /\ panic' # NoPanic
           /\ Contains(panic', Text(last'.label.name))
           /\ Contains(panic', UlidDisplay(last'.label.id))
           /\ stages' = stages]_vars

\* the program has panicked on a label that no stage of a collection with
\* systems carries
C5_Witness ==
    /\ panic # NoPanic
    /\ AfterAdd
    /\ NoStageHas(stages, last.label.id)
    /\ \E i \in 1..Len(stages) : Len(stages[i].systems) > 0

(***************************************************************************)
(* C6. One initialize_systems call calls the initialize hook of every      *)
(* system of every stage exactly once, stage by stage and in insertion     *)
(* order within a stage, whatever the number of stages and of systems.     *)
(***************************************************************************)
\* the calls are to every system of the collection, once each and in order
VisitsEverySystemOnce(hook) ==
    /\ Len(calls) = NumSystems(stages)
    /\ \A m \in 1..Len(calls) :
          /\ calls[m].hook = hook
          /\ Pos(calls[m]) \in Positions(stages)
          /\ calls[m].fn = stages[calls[m].stage].systems[calls[m].index].fn
    /\ \A m, n \in 1..Len(calls) :
          m < n => Before(Pos(calls[m]), Pos(calls[n]))
    /\ \A i \in 1..Len(stages) :
          [k \in 1..Len(CallsOfStage(i)) |-> CallsOfStage(i)[k].fn]
            = InsertionOrder(i)

C6_InitializeVisitsEverySystemOnce ==
    AfterInitialize => VisitsEverySystemOnce("initialize")

\* an initialize_systems call on a collection with an empty stage and
\* two systems
C6_Witness ==
    /\ AfterInitialize
    /\ Len(calls) >= 2
    /\ \E i \in 1..Len(stages) : stages[i].systems = <<>>

(***************************************************************************)
(* C7. When two stages of a collection have the same id,                   *)
(* add_system_to_stage with a label of that id appends the system to the   *)
(* first of them.                                                          *)
(***************************************************************************)
StagesWith(sts, id) == {i \in 1..Len(sts) : StageId(sts[i]) = id}

Min(S) == CHOOSE x \in S : \A y \in S : x <= y

Max(S) == CHOOSE x \in S : \A y \in S : x >= y

AppendedTo(i) ==
    /\ Len(stages') = Len(stages)
    /\ stages'[i].systems = Append(stages[i].systems, NewSystem(last'.fn))
    /\ \A j \in 1..Len(stages) : j # i => stages'[j] = stages[j]

AddToSharedId ==
    /\ last'.op = "add_system_to_stage"
    /\ Cardinality(StagesWith(stages, last'.label.id)) >= 2

C7_FirstMatchWins ==
    [][AddToSharedId => AppendedTo(Min(StagesWith(stages, last'.label.id)))]_vars

\* C7 as amended: the system is appended to the last of the stages that
\* have the id of the label.
C7_LastMatchWins ==
    [][AddToSharedId => AppendedTo(Max(StagesWith(stages, last'.label.id)))]_vars

\* a system has been added with a label whose id two stages have
C7_Witness ==
    /\ AfterAdd
    /\ panic = NoPanic
    /\ Cardinality(StagesWith(stages, last.label.id)) >= 2
    /\ Len(stages[Max(StagesWith(stages, last.label.id))].systems) > 0

(***************************************************************************)
(* C8. Repeated run calls do not memoize: in every one of any number of    *)
(* run calls in a row in which no system fails, the run hook of every      *)
(* system of every stage is called exactly once.                           *)
(***************************************************************************)
C8_RunDoesNotMemoize ==
    (AfterRun /\ ret.ok) => VisitsEverySystemOnce("run")

\* the second of two run calls in a row without failure, over two systems
C8_Witness ==
    /\ AfterRun
    /\ streak >= 2
    /\ Len(calls) >= 2

(***************************************************************************)
(* C9. The stage sequence is fixed after construction: no call of          *)
(* add_system_to_stage, initialize_systems or run, failed runs included,   *)
(* changes the number of stages, their ids or their positions.             *)
(***************************************************************************)
StageIds(sts) == [i \in 1..Len(sts) |-> StageId(sts[i])]

C9_StageSequenceFixed ==
    [][StageIds(stages') = StageIds(stages)]_vars

\* a collection that was registered into, initialized and run with a failure
C9_Witness ==
    /\ AfterRun
    /\ ~ret.ok
    /\ nInits >= 1
    /\ Len(registered) >= 1

(***************************************************************************)
(* C10. A successful add_system_to_stage(label, system) appends exactly    *)
(* one system at the end of the system list of a stage whose id is         *)
(* label.id(): the earlier systems of that stage keep their order, and     *)
(* the system lists of all other stages are unchanged.                     *)
(***************************************************************************)
C10_AddAppendsToOneStage ==
    [][(last'.op = "add_system_to_stage" /\ panic' = NoPanic)
        => \E i \in StagesWith(stages, last'.label.id) : AppendedTo(i)]_vars

\* a system has been added to a stage that had a system, next to another
\* stage
C10_Witness ==
    /\ AfterAdd
    /\ panic = NoPanic
    /\ Len(stages) >= 2
    /\ \E i \in StagesWith(stages, last.label.id) :
          /\ Len(stages[i].systems) >= 2
          /\ stages[i].systems[1].fn # stages[i].systems[2].fn

(***************************************************************************)
(* C11. Registration does not deduplicate: a system added m times to one   *)
(* stage has m entries in it; a run call without failure calls its run     *)
(* hook m times and an initialize_systems call its initialize hook m       *)
(* times.                                                                  *)
(***************************************************************************)
Count(seq, Test(_)) == Cardinality({k \in 1..Len(seq) : Test(seq[k])})

\* the number of times the system f was added to stage i
TimesAdded(i, f) == Count(registered, LAMBDA r : r.stage = i /\ r.fn = f)

TimesCalled(i, f) == Count(calls, LAMBDA c : c.stage = i /\ c.fn = f)

C11_NoDeduplication ==
    \A i \in 1..Len(stages) : \A f \in SystemFns :
        /\ Count(stages[i].systems, LAMBDA e : e.fn = f) = TimesAdded(i, f)
        /\ (AfterRun /\ ret.ok) => TimesCalled(i, f) = TimesAdded(i, f)
        /\ AfterInitialize => TimesCalled(i, f) = TimesAdded(i, f)

\* a run call without failure on a stage that one system was added to twice
C11_Witness ==
    /\ AfterRun
    /\ ret.ok
    /\ \E i \in 1..Len(stages) : \E f \in SystemFns :
          TimesAdded(i, f) >= 2 /\ TimesCalled(i, f) >= 2

(***************************************************************************)
(* C12. initialize_systems is not guarded against repetition: every call   *)
(* initializes every system again, so after n calls a system that was      *)
(* registered before the first call has been initialized n times.          *)
(***************************************************************************)
\* the registrations into stage i, in order
RegistrationsOf(i) == SelectSeq(registered, LAMBDA r : r.stage = i)

C12_InitializeNotGuarded ==
    /\ AfterInitialize => Len(calls) = NumSystems(stages)
    /\ \A i \in 1..Len(stages) :
        /\ Len(RegistrationsOf(i)) = Len(stages[i].systems)
        /\ \A k \in 1..Len(stages[i].systems) :
              RegistrationsOf(i)[k].after = 0
                 => stages[i].systems[k].inits = nInits

\* two initialize_systems calls on a collection with a system registered
\* before the first of them
C12_Witness ==
    /\ AfterInitialize
    /\ nInits >= 2
    /\ Len(calls) >= 1
    /\ \E i \in 1..Len(stages) : \E k \in 1..Len(stages[i].systems) :
          RegistrationsOf(i)[k].after = 0 /\ stages[i].systems[k].inits >= 2

(***************************************************************************)
(* C13. A failed tick leaves no resume point: the run call after a failed  *)
(* run call starts at the first system of the first stage.  With stage A   *)
(* of sysX and sysY and stage B of sysZ: a first tick without failure      *)
(* runs sysX, sysY, sysZ; a second tick in which sysY fails runs sysX and  *)
(* sysY, not sysZ, and returns the error of sysY; a third tick runs sysX   *)
(* first.                                                                  *)
(***************************************************************************)
CallFns == [k \in 1..Len(calls) |-> calls[k].fn]

\* the run call before the last one failed
PreviousTickFailed == Len(ticks) >= 2 /\ ~ticks[Len(ticks) - 1]

\* the last call of the scheduler started at the first system there is
StartsAtFirstSystem ==
    /\ calls # <<>>
    /\ \A p \in Positions(stages) :
          p = Pos(calls[1]) \/ Before(Pos(calls[1]), p)

C13_NoResumePoint ==
    AfterRun =>
        /\ PreviousTickFailed => StartsAtFirstSystem
        /\ (nRuns = 1 /\ ret.ok) => CallFns = <<"sysX", "sysY", "sysZ">>
        /\ (nRuns = 2 /\ ticks[1] /\ FirstFailure # 0)
              => (calls[FirstFailure].fn = "sysY"
                    => /\ CallFns = <<"sysX", "sysY">>
                       /\ ret = Err(ErrorOf(<<1, 2>>)))
        /\ (nRuns = 3 /\ ~ticks[2]) => calls[1].fn = "sysX"

\* the third tick, after a first tick without failure and a failed second
C13_Witness ==
    /\ AfterRun
    /\ nRuns = 3
    /\ ticks[1]
    /\ ~ticks[2]
    /\ StartsAtFirstSystem
    /\ calls[1].fn = "sysX"

(***************************************************************************)
(* C14. The scheduler keeps no lifecycle state: a run call made before     *)
(* any initialize_systems call is not rejected, and it calls the run       *)
(* hooks just as a run call made after initialization does: the systems    *)
(* in stage order and list order from the first one, up to the first       *)
(* failure, returning the error of that system or Ok.                      *)
(***************************************************************************)
\* the positions of the collection that come before position p
PositionsBefore(p) == {q \in Positions(stages) : Before(q, p)}

\* the last scheduler call called the run hooks as run does, whatever the
\* number of initialize_systems calls before it
RunsAsRunDoes ==
    /\ \A k \in 1..Len(calls) :
         /\ calls[k].hook = "run"
         /\ Pos(calls[k]) \in Positions(stages)
         /\ calls[k].fn = stages[calls[k].stage].systems[calls[k].index].fn
         /\ Cardinality(PositionsBefore(Pos(calls[k]))) = k - 1
         /\ k < Len(calls) => calls[k].result.ok
    /\ IF FirstFailure # 0
       THEN ret = calls[FirstFailure].result
       ELSE ret = Ok /\ Len(calls) = NumSystems(stages)

C14_RunBeforeInitialize ==
    AfterRun => (panic = NoPanic /\ RunsAsRunDoes)

\* a run call before any initialize_systems call called a system that was
\* never initialized, and was not stopped by it
C14_Witness ==
    /\ AfterRun
    /\ nInits = 0
    /\ Len(calls) = 2
    /\ \A k \in 1..Len(calls) :
         stages[calls[k].stage].systems[calls[k].index].inits = 0
    /\ ret = Ok

(***************************************************************************)
(* C15. run and initialize_systems leave the structure unchanged: the      *)
(* stages, and in every stage the systems and their order, are the same    *)
(* after the call as before it, whether the call succeeds or fails.        *)
(***************************************************************************)
\* the functions of the systems of every stage, in list order
SystemLists(sts) ==
    [i \in 1..Len(sts) |->
        [k \in 1..Len(sts[i].systems) |-> sts[i].systems[k].fn]]

C15_RunAndInitializeKeepLists ==
    [][(last'.op \in {"run", "initialize_systems"})
          => /\ SystemLists(stages') = SystemLists(stages)
             /\ StageIds(stages') = StageIds(stages)
             /\ Len(stages') = Len(stages)]_vars

\* a run call failed at the first of two systems of a stage, after an
\* initialize_systems call, and both systems are in the list as registered
C15_Witness ==
    /\ AfterRun
    /\ ~ret.ok
    /\ nInits >= 1
    /\ \E i \in 1..Len(stages) :
         /\ Len(stages[i].systems) = 2
         /\ SystemLists(stages)[i] = InsertionOrder(i)
         /\ ret = Err(ErrorOf(<<i, 1>>))

(***************************************************************************)
(* C16. Every run call ends, given that every run hook returns: it ends    *)
(* after the last system of the last stage or at the first failure, and    *)
(* it calls no entry of a list more than once, so that it makes at most    *)
(* as many hook calls as the collection has systems.                       *)
(***************************************************************************)
\* position p is the last position of the collection
LastPosition(p) == \A q \in Positions(stages) : q = p \/ Before(q, p)

C16_RunEnds ==
    AfterRun =>
        /\ \A m, n \in 1..Len(calls) :
              m # n => Pos(calls[m]) # Pos(calls[n])
        /\ Len(calls) <= NumSystems(stages)
        /\ \/ NumSystems(stages) = 0 /\ calls = <<>>
           \/ /\ calls # <<>>
              /\ \/ ~calls[Len(calls)].result.ok
                 \/ LastPosition(Pos(calls[Len(calls)]))

\* a run call that ended at a failure before the last system
C16_Witness ==
    /\ AfterRun
    /\ calls # <<>>
    /\ ~calls[Len(calls)].result.ok
    /\ ~LastPosition(Pos(calls[Len(calls)]))
    /\ Len(calls) < NumSystems(stages)

(***************************************************************************)
(* C17. In a collection built by with_core_stages the ids of the stages    *)
(* stay pairwise distinct, so that add_system_to_stage with a CoreStage    *)
(* label finds exactly one stage with the id and never panics.             *)
(***************************************************************************)
C17_CoreIdsStayUnique ==
    ctor = "with_core_stages" =>
        /\ \A i, j \in 1..Len(stages) :
              i # j => StageId(stages[i]) # StageId(stages[j])
        /\ \A l \in CoreLabels : Cardinality(StagesWith(stages, l.id)) = 1
        /\ (AfterAdd /\ last.label \in CoreLabels)
              => /\ panic = NoPanic
                 /\ stages[FindStage(stages, last.label.id)].systems # <<>>

\* after a run and an initialize_systems call a second system was
\* registered with a CoreStage label
C17_Witness ==
    /\ ctor = "with_core_stages"
    /\ AfterAdd
    /\ last.label \in CoreLabels
    /\ panic = NoPanic
    /\ NumSystems(stages) = 2
    /\ nRuns >= 1
    /\ nInits >= 1

(***************************************************************************)
(* C18. run returns success exactly when no run hook it called reported    *)
(* failure; a run call on a collection without stages, or whose stages     *)
(* are all without systems, returns success and calls no system.           *)
(***************************************************************************)
C18_OkIffNoFailure ==
    AfterRun =>
        /\ ret.ok <=> (\A k \in 1..Len(calls) : calls[k].result.ok)
        /\ NumSystems(stages) = 0 => (ret = Ok /\ calls = <<>>)

\* a run call over stages that are all without systems
C18_Witness ==
    /\ AfterRun
    /\ Len(stages) >= 2
    /\ \A i \in 1..Len(stages) : stages[i].systems = <<>>
    /\ ret = Ok
    /\ calls = <<>>

(***************************************************************************)
(* C19. A system registered after initialize_systems was called is not     *)
(* initialized by the registration: its initialize hook is called only by  *)
(* the initialize_systems calls that come after it, and until then run     *)
(* calls call its run hook although it was never initialized.              *)
(***************************************************************************)
C19_LateSystemNotInitialized ==
    /\ \A i \in 1..Len(stages) :
         LET rs == RegistrationsOf(i)
         IN \A k \in 1..Len(stages[i].systems) :
              stages[i].systems[k].inits = nInits - rs[k].after
    /\ AfterAdd => calls = <<>>
    /\ AfterRun =>
         \A p \in Positions(stages) :
            (\A q \in PositionsBefore(p) :
                 \E m \in 1..Len(calls) :
                    Pos(calls[m]) = q /\ calls[m].result.ok)
              => \E m \in 1..Len(calls) :
                    Pos(calls[m]) = p /\ calls[m].hook = "run"

\* after an initialize_systems call a system was registered, and a run
\* call then called its run hook though it was never initialized
C19_Witness ==
    /\ AfterRun
    /\ nInits >= 1
    /\ \E m \in 1..Len(calls) :
         /\ stages[calls[m].stage].systems[calls[m].index].inits = 0
         /\ calls[m].hook = "run"
         /\ RegistrationsOf(calls[m].stage)[calls[m].index].after >= 1

====
